---------------------------- MODULE Spec2Model ----------------------------
(***************************************************************************)
(* Model of the PubMed query optimizer (src/main.py).                      *)
(*                                                                         *)
(* A Python str is a sequence of one-character strings, so that substring  *)
(* search, str.replace, str.upper and " ".join are computed character by   *)
(* character.  A value of the nested query structure (QueryStructure, a    *)
(* str or a list) is a record [k |-> "str", v |-> <chars>] or              *)
(* [k |-> "list", v |-> <sequence of such records>]; the tag k stands for  *)
(* Python's isinstance(x, list).                                           *)
(*                                                                         *)
(* Three specifications:                                                   *)
(*   SpecParse  parse_query: tokenize, then parse_tokens                   *)
(*   SpecTree   get_minimal_operator_groups, join_keyword,                 *)
(*              reverse_joined_keywords, get_or_keyword (lines 231-235     *)
(*              of main), and join_keyword applied to any structure        *)
(*   Spec       search_pubmed against a result-count oracle that may       *)
(*              answer any count or fail                                   *)
(***************************************************************************)
EXTENDS Integers, Sequences, FiniteSets, TLC

VARIABLES
    pc,                 \* position of the running specification
    \* parse_query
    query_str,          \* the raw query text
    tokens,             \* tokenize(query_str)
    parsed_tree,        \* the list parse_tokens returns
    remaining,          \* what is left in the token list after parse_tokens
    \* main, lines 231-235
    tree,               \* a parsed tree (or any nested structure)
    minimal_groups,     \* get_minimal_operator_groups(tree)
    joined_keywords,    \* join_keyword(...)
    rejoined,           \* join_keyword(joined_keywords)
    search_query,       \* reverse_joined_keywords(joined_keywords)
    or_keyword_list,    \* get_or_keyword(joined_keywords)
    \* search_pubmed
    query,              \* argument query
    or_keywords,        \* argument or_keywords
    result_count,       \* baseline count
    excluded_keywords,
    current_query,
    idx,                \* index of the next element of or_keywords
    new_query,          \* candidate of the last iteration
    new_count,          \* what the oracle answered for it
    oracle_calls,       \* the query strings sent to the oracle, in order
    oracle_answers,     \* what the oracle did with each of them
    driver_open,        \* the WebDriver is alive
    returned            \* the tuple search_pubmed returned, or Nothing

parseVars == <<query_str, tokens, parsed_tree, remaining>>
treeVars == <<tree, minimal_groups, joined_keywords, rejoined, search_query,
              or_keyword_list>>
engineVars == <<query, or_keywords, result_count, excluded_keywords,
                current_query, idx, new_query, new_count, oracle_calls,
                oracle_answers, driver_open, returned>>
vars == <<pc, parseVars, treeVars, engineVars>>

Nothing == "Nothing"

-----------------------------------------------------------------------------
(* Python str operations on sequences of characters *)

\* Characters are those of Latin-1 (U+0000 to U+00FF), the ones a string
\* literal can hold.
AsciiLetters ==
    {"a","b","c","d","e","f","g","h","i","j","k","l","m",
     "n","o","p","q","r","s","t","u","v","w","x","y","z",
     "A","B","C","D","E","F","G","H","I","J","K","L","M",
     "N","O","P","Q","R","S","T","U","V","W","X","Y","Z"}
Digits == {"0","1","2","3","4","5","6","7","8","9"}

Range(s) == {s[i] : i \in DOMAIN s}

\* the characters c with c.upper() = letter, for the letters of "AND" and
\* "OR".  str.upper maps each character by itself, and of all Unicode
\* characters these ten alone have a capital written with these letters only.
UpperPreimage(letter) ==
    CASE letter = "A" -> {"A", "a"}
      [] letter = "N" -> {"N", "n"}
      [] letter = "D" -> {"D", "d"}
      [] letter = "O" -> {"O", "o"}
      [] letter = "R" -> {"R", "r"}

\* s.upper() == w, for w "AND" or "OR"
UpperIs(s, w) ==
    /\ Len(s) = Len(w)
    /\ \A i \in DOMAIN w : s[i] \in UpperPreimage(w[i])

\* s[i:].startswith(p), i counted from 1
StartsAt(s, p, i) ==
    /\ i + Len(p) - 1 <= Len(s)
    /\ SubSeq(s, i, i + Len(p) - 1) = p

\* p in s
Contains(s, p) == \E i \in 1..(Len(s) + 1) : StartsAt(s, p, i)

\* s.replace(old, ""): every non-overlapping occurrence, scanning left to right
RECURSIVE ReplaceFrom(_, _, _)
ReplaceFrom(s, old, i) ==
    IF i > Len(s) THEN <<>>
    ELSE IF StartsAt(s, old, i) THEN ReplaceFrom(s, old, i + Len(old))
    ELSE <<s[i]>> \o ReplaceFrom(s, old, i + 1)

Replace(s, old) == IF old = <<>> THEN s ELSE ReplaceFrom(s, old, 1)

\* " ".join(parts), parts a sequence of character sequences
RECURSIVE JoinSpace(_)
JoinSpace(parts) ==
    IF parts = <<>> THEN <<>>
    ELSE IF Len(parts) = 1 THEN parts[1]
    ELSE parts[1] \o <<" ">> \o JoinSpace(Tail(parts))

sAND == <<"A","N","D">>
sOR == <<"O","R">>
sOpen == <<"(">>
sClose == <<")">>

\* s.upper() in ["AND", "OR"]
IsOperator(s) == UpperIs(s, sAND) \/ UpperIs(s, sOR)

-----------------------------------------------------------------------------
(* The nested query structure *)

Str(s) == [k |-> "str", v |-> s]
List(c) == [k |-> "list", v |-> c]
IsList(x) == x.k = "list"
IsStr(x) == x.k = "str"

-----------------------------------------------------------------------------
(* Step 1: tokenize, parse_tokens, parse_query *)

\* the characters of Latin-1 above U+007F that \w matches (str patterns are
\* Unicode-aware): the letters and the digit-like signs
Latin1WordChars ==
    {"ª","²","³","µ","¹","º","¼","½","¾","À","Á","Â","Ã","Ä",
     "Å","Æ","Ç","È","É","Ê","Ë","Ì","Í","Î","Ï","Ð","Ñ","Ò",
     "Ó","Ô","Õ","Ö","Ø","Ù","Ú","Û","Ü","Ý","Þ","ß","à","á",
     "â","ã","ä","å","æ","ç","è","é","ê","ë","ì","í","î","ï",
     "ð","ñ","ò","ó","ô","õ","ö","ø","ù","ú","û","ü","ý","þ",
     "ÿ"}

\* \w
IsWordChar(c) ==
    \/ c \in AsciiLetters
    \/ c \in Digits
    \/ c = "_"
    \/ c \in Latin1WordChars

\* the characters of Latin-1 that \s matches: U+0009 to U+000D, U+001C to
\* U+001F, the space, U+0085 and U+00A0
SpaceChars ==
    {"\t","\n","","\f","\r","","","",""," ",""," "}

\* \s
IsSpace(c) == c \in SpaceChars

\* \b at the gap before position i
WordBoundary(s, i) ==
    LET before == i > 1 /\ i - 1 <= Len(s) /\ IsWordChar(s[i - 1])
        after == i >= 1 /\ i <= Len(s) /\ IsWordChar(s[i])
    IN  before # after

\* \bW\b matches at position i
WordAt(s, w, i) ==
    /\ StartsAt(s, w, i)
    /\ WordBoundary(s, i)
    /\ WordBoundary(s, i + Len(w))

\* end (exclusive) of the maximal run of [^\s()] starting at i
RECURSIVE RunEnd(_, _)
RunEnd(s, i) ==
    IF i > Len(s) \/ IsSpace(s[i]) \/ s[i] \in {"(", ")"} THEN i
    ELSE RunEnd(s, i + 1)

\* re.findall of  \(|\)|\bAND\b|\bOR\b|[^\s()]+  from position i
RECURSIVE FindAll(_, _)
FindAll(s, i) ==
    IF i > Len(s) THEN <<>>
    ELSE IF s[i] = "(" \/ s[i] = ")" THEN <<(<<s[i]>>)>> \o FindAll(s, i + 1)
    ELSE IF WordAt(s, sAND, i) THEN <<sAND>> \o FindAll(s, i + Len(sAND))
    ELSE IF WordAt(s, sOR, i) THEN <<sOR>> \o FindAll(s, i + Len(sOR))
    ELSE IF RunEnd(s, i) > i
         THEN <<SubSeq(s, i, RunEnd(s, i) - 1)>> \o FindAll(s, RunEnd(s, i))
    ELSE FindAll(s, i + 1)

tokenize(q) == FindAll(q, 1)

RECURSIVE parse_loop(_, _)

\* a variant of the ')' branch that skips the token and keeps reading
SkipCloseParen(tr, rest) == parse_loop(tr, rest)

\* the ')' branch of parse_tokens, `tr` accumulated and `rest` left in the
\* token list: return tree
OnCloseParen(tr, rest) == [tree |-> tr, rest |-> rest]

\* the while loop of parse_tokens: `tr` accumulated so far, `toks` the shared
\* token list; yields the tree returned and the tokens left in the list
parse_loop(tr, toks) ==
    IF toks = <<>> THEN [tree |-> tr, rest |-> <<>>]
    ELSE LET token == Head(toks)
             rest == Tail(toks)
         IN  IF token = sOpen
             THEN LET sub == parse_loop(<<>>, rest)
                  IN  parse_loop(Append(tr, List(sub.tree)), sub.rest)
             ELSE IF token = sClose
             THEN OnCloseParen(tr, rest)
             ELSE parse_loop(Append(tr, Str(token)), rest)

parse_tokens(toks) == parse_loop(<<>>, toks)

-----------------------------------------------------------------------------
(* Step 2: minimal group extraction, flattening, reconstruction *)

RECURSIVE contains_operator(_)
contains_operator(group) ==
    IF IsList(group)
    THEN \E i \in DOMAIN group.v :
            IF IsList(group.v[i]) THEN contains_operator(group.v[i])
            ELSE IsOperator(group.v[i].v)
    ELSE FALSE

\* concatenation of a sequence of sequences
RECURSIVE Flatten(_)
Flatten(ss) == IF ss = <<>> THEN <<>> ELSE Head(ss) \o Flatten(Tail(ss))

\* a variant of line 88 that appends the group whatever its children hold
EmitsAlways(child_has_operator) == TRUE

\* the test of line 88
EmitsSelf(child_has_operator) == ~child_has_operator

RECURSIVE get_minimal_operator_groups(_)
get_minimal_operator_groups(t) ==
    IF IsList(t) /\ contains_operator(t)
    THEN LET child_has_operator ==
                 \E i \in DOMAIN t.v : IsList(t.v[i]) /\ contains_operator(t.v[i])
             harvested ==
                 Flatten([i \in DOMAIN t.v |->
                     IF IsList(t.v[i]) /\ contains_operator(t.v[i])
                     THEN get_minimal_operator_groups(t.v[i])
                     ELSE <<>>])
         IN  IF EmitsSelf(child_has_operator) THEN Append(harvested, t)
             ELSE harvested
    ELSE <<>>

is_list_within(item_list) == \E i \in DOMAIN item_list : IsList(item_list[i])

\* a variant of the "OR" test of join_keyword that compares case-insensitively
HasOrIgnoringCase(modified_list) ==
    \E i \in DOMAIN modified_list :
        IsStr(modified_list[i]) /\ UpperIs(modified_list[i].v, sOR)

\* "OR" in modified_list (line 113)
HasOr(modified_list) == Str(sOR) \in Range(modified_list)

\* a variant of the test of line 113 that looks at the children before they
\* are flattened
MayJoinUnflattened(item_list, modified_list) ==
    IF IsList(item_list)
    THEN ~HasOr(item_list.v) /\ ~is_list_within(item_list.v)
    ELSE ~HasOr(modified_list)

\* the test of line 113
MayJoin(item_list, modified_list) ==
    ~HasOr(modified_list) /\ ~is_list_within(modified_list)

RECURSIVE join_keyword(_)
join_keyword(item_list) ==
    LET modified_list ==
            IF IsList(item_list)
            THEN [i \in DOMAIN item_list.v |->
                    IF IsList(item_list.v[i]) THEN join_keyword(item_list.v[i])
                    ELSE item_list.v[i]]
            ELSE <<item_list>>
    IN  IF MayJoin(item_list, modified_list)
        THEN Str(JoinSpace([i \in DOMAIN modified_list |-> modified_list[i].v]))
        ELSE List(modified_list)

RECURSIVE reverse_joined_keywords(_, _)
reverse_joined_keywords(structure, top_level) ==
    IF IsStr(structure)
    THEN IF IsOperator(structure.v) THEN structure.v
         ELSE sOpen \o structure.v \o sClose
    ELSE LET reconstructed_parts ==
                 [i \in DOMAIN structure.v |->
                     reverse_joined_keywords(structure.v[i], FALSE)]
             joined_string == JoinSpace(reconstructed_parts)
         IN  IF ~top_level THEN sOpen \o joined_string \o sClose
             ELSE joined_string

-----------------------------------------------------------------------------
(* get_or_keyword: entries are <<keyword, hint>>, hint "after", "before" or
   Nothing (Python's None) *)

\* a variant of the hint of the first keyword that tags it "before"
FirstHintBefore(n) == IF n > 1 THEN "before" ELSE Nothing

\* the hint of the first of n keywords (lines 207-210)
FirstHint(n) == IF n > 1 THEN "after" ELSE Nothing

RECURSIVE get_or_keyword(_)
get_or_keyword(joined_keywords_list) ==
    LET keywords_list ==
            IF IsList(joined_keywords_list)
            THEN Flatten([i \in DOMAIN joined_keywords_list.v |->
                    LET item == joined_keywords_list.v[i]
                    IN  IF IsList(item) THEN get_or_keyword(item)
                        ELSE IF IsOperator(item.v) THEN <<>>
                        ELSE << <<item.v, Nothing>> >>])
            ELSE IF ~IsOperator(joined_keywords_list.v)
                 THEN << <<joined_keywords_list.v, Nothing>> >>
                 ELSE <<>>
    IN  [i \in DOMAIN keywords_list |->
            IF i = 1 THEN <<keywords_list[1][1], FirstHint(Len(keywords_list))>>
            ELSE <<keywords_list[i][1], "before">>]

-----------------------------------------------------------------------------
(* Bounds and inputs *)

MaxLexemes == 6         \* pieces of a raw query text
MaxNodes == 4           \* strings and sub-lists of an input tree
MaxEngineNodes == 4     \* the same, for the trees whose queries are optimized

\* the sequences over S of length n
SeqsOfLen(S, n) == [1..n -> S]

QueryLexemes == {sOpen, sClose, <<" ">>, <<"a">>, sAND}

\* "a) AND b", "(a AND b) OR c", and three texts with characters that only
\* a Unicode-aware \s or \w classifies: "a\r\nb", "(a\fAND b)", "ORÉAL) x"
SampleQueries ==
    { <<"a", ")", " ", "A", "N", "D", " ", "b">>,
      <<"(", "a", " ", "A", "N", "D", " ", "b", ")", " ", "O", "R", " ", "c">>,
      <<"a", "\r", "\n", "b">>,
      <<"(", "a", "\f", "A", "N", "D", " ", "b", ")">>,
      <<"O", "R", "É", "A", "L", ")", " ", "x">> }

\* the sample queries and every text of at most n pieces
QueryInputs(n) ==
    SampleQueries \cup
    UNION { {Flatten(ls) : ls \in SeqsOfLen(QueryLexemes, m)} : m \in 0..n }

\* the sequences of structures with n strings and sub-lists in all
RECURSIVE Forests(_, _)
Forests(leaves, n) ==
    IF n = 0 THEN {<<>>}
    ELSE { <<Str(l)>> \o f : l \in leaves, f \in Forests(leaves, n - 1) }
         \cup
         UNION { { <<List(g)>> \o f :
                      g \in Forests(leaves, m - 1), f \in Forests(leaves, n - m) }
                 : m \in 1..n }

TreesUpTo(leaves, n) == UNION { {List(f) : f \in Forests(leaves, m)} : m \in 0..n }

TreeLeaves == {<<"a">>, <<"b">>, sAND, sOR, <<"o", "r">>}

T(c) == Str(<<c>>)

\* [[a, AND, b], OR, [c, AND, [d, OR, e]]]
SampleTree ==
    List(<< List(<<T("a"), Str(sAND), T("b")>>),
            Str(sOR),
            List(<<T("c"), Str(sAND), List(<<T("d"), Str(sOR), T("e")>>)>>) >>)

\* the sample tree, the bare strings and every tree of at most n nodes
StructureInputs(n) ==
    TreesUpTo(TreeLeaves, n) \cup {Str(l) : l \in TreeLeaves} \cup {SampleTree}

-----------------------------------------------------------------------------
(* SpecParse: parse_query *)

IdleParse ==
    /\ query_str = Nothing /\ tokens = Nothing
    /\ parsed_tree = Nothing /\ remaining = Nothing
IdleTree ==
    /\ tree = Nothing /\ minimal_groups = Nothing /\ joined_keywords = Nothing
    /\ rejoined = Nothing /\ search_query = Nothing /\ or_keyword_list = Nothing
IdleEngine ==
    /\ query = Nothing /\ or_keywords = Nothing /\ result_count = Nothing
    /\ excluded_keywords = Nothing /\ current_query = Nothing /\ idx = Nothing
    /\ new_query = Nothing /\ new_count = Nothing /\ oracle_calls = Nothing
    /\ oracle_answers = Nothing /\ driver_open = Nothing /\ returned = Nothing

InitParse ==
    /\ pc = "query"
    /\ query_str \in QueryInputs(MaxLexemes)
    /\ tokens = Nothing /\ parsed_tree = Nothing /\ remaining = Nothing
    /\ IdleTree /\ IdleEngine

\* parse_query, line 58
Tokenize ==
    /\ pc = "query"
    /\ tokens' = tokenize(query_str)
    /\ pc' = "tokens"
    /\ UNCHANGED <<query_str, parsed_tree, remaining, treeVars, engineVars>>

\* parse_query, line 59
Parse ==
    /\ pc = "tokens"
    /\ parsed_tree' = List(parse_tokens(tokens).tree)
    /\ remaining' = parse_tokens(tokens).rest
    /\ pc' = "parsed"
    /\ UNCHANGED <<query_str, tokens, treeVars, engineVars>>

NextParse == Tokenize \/ Parse

SpecParse == InitParse /\ [][NextParse]_vars

-----------------------------------------------------------------------------
(* SpecTree: the pure stages of main, and join_keyword on any structure *)

InitTree ==
    /\ pc = "tree"
    /\ tree \in StructureInputs(MaxNodes)
    /\ minimal_groups = Nothing /\ joined_keywords = Nothing
    /\ rejoined = Nothing /\ search_query = Nothing /\ or_keyword_list = Nothing
    /\ IdleParse /\ IdleEngine

\* main, line 232
Extract ==
    /\ pc = "tree"
    /\ IsList(tree)
    /\ minimal_groups' = get_minimal_operator_groups(tree)
    /\ pc' = "groups"
    /\ UNCHANGED <<tree, joined_keywords, rejoined, search_query,
                   or_keyword_list, parseVars, engineVars>>

\* main, line 233
JoinGroups ==
    /\ pc = "groups"
    /\ joined_keywords' = join_keyword(List(minimal_groups))
    /\ pc' = "joined"
    /\ UNCHANGED <<tree, minimal_groups, rejoined, search_query,
                   or_keyword_list, parseVars, engineVars>>

\* main, line 234
Reconstruct ==
    /\ pc = "joined"
    /\ search_query' = reverse_joined_keywords(joined_keywords, TRUE)
    /\ pc' = "rebuilt"
    /\ UNCHANGED <<tree, minimal_groups, joined_keywords, rejoined,
                   or_keyword_list, parseVars, engineVars>>

\* main, line 235
Tag ==
    /\ pc = "rebuilt"
    /\ or_keyword_list' = get_or_keyword(joined_keywords)
    /\ pc' = "tagged"
    /\ UNCHANGED <<tree, minimal_groups, joined_keywords, rejoined,
                   search_query, parseVars, engineVars>>

\* join_keyword applied to the input structure itself
JoinAny ==
    /\ pc = "tree"
    /\ joined_keywords' = join_keyword(tree)
    /\ pc' = "flat"
    /\ UNCHANGED <<tree, minimal_groups, rejoined, search_query,
                   or_keyword_list, parseVars, engineVars>>

\* join_keyword applied to its own result
JoinAgain ==
    /\ pc = "flat"
    /\ rejoined' = join_keyword(joined_keywords)
    /\ pc' = "flat2"
    /\ UNCHANGED <<tree, minimal_groups, joined_keywords, search_query,
                   or_keyword_list, parseVars, engineVars>>

NextTree == Extract \/ JoinGroups \/ Reconstruct \/ Tag \/ JoinAny \/ JoinAgain

SpecTree == InitTree /\ [][NextTree]_vars

-----------------------------------------------------------------------------
(* Spec: search_pubmed *)

\* the result-count oracle answers a count or fails (perform_search raises)
Counts == {0, 100}
Answer(n) == [ok |-> TRUE, n |-> n]
Failure == [ok |-> FALSE, n |-> 0]
OracleOutcomes == {Answer(n) : n \in Counts} \cup {Failure}

EngineLeaves == {<<"a">>, <<"b">>, sOR}

cat == <<"c", "a", "t">>
feline == <<"f", "e", "l", "i", "n", "e">>

\* "(cat) OR (feline)" with [("cat", "after"), ("feline", "before")]
CatFelineInput ==
    << sOpen \o cat \o sClose \o <<" ">> \o sOR \o <<" ">>
         \o sOpen \o feline \o sClose,
       << <<cat, "after">>, <<feline, "before">> >> >>

\* what main passes to search_pubmed (lines 232-237) for a parsed tree
MainInput(t) ==
    LET joined == join_keyword(List(get_minimal_operator_groups(t)))
    IN  <<reverse_joined_keywords(joined, TRUE), get_or_keyword(joined)>>

\* [a, OR, b, OR, b], [a, OR, a, OR, a] and [[a, OR, b], AND, [b, OR, a, OR, b]]
RepeatedTermTrees ==
    { List(<<T("a"), Str(sOR), T("b"), Str(sOR), T("b")>>),
      List(<<T("a"), Str(sOR), T("a"), Str(sOR), T("a")>>),
      List(<< List(<<T("a"), Str(sOR), T("b")>>),
              Str(sAND),
              List(<<T("b"), Str(sOR), T("a"), Str(sOR), T("b")>>) >>) }

\* what main passes for the sample trees and for every tree of at most n
\* nodes, and the cat/feline input
EngineInputs(n) ==
    {MainInput(t) : t \in TreesUpTo(EngineLeaves, n) \cup RepeatedTermTrees}
    \cup {CatFelineInput}

\* a variant of replace_text that builds the "before" text for "after" too
ReplaceTextBeforeOnly(or_keyword) ==
    IF or_keyword[2] \in {"before", "after"}
    THEN <<" ">> \o sOR \o <<" ">> \o sOpen \o or_keyword[1] \o sClose
    ELSE sOpen \o or_keyword[1] \o sClose

\* replace_text, lines 171-176
ReplaceText(or_keyword) ==
    IF or_keyword[2] = "before"
    THEN <<" ">> \o sOR \o <<" ">> \o sOpen \o or_keyword[1] \o sClose
    ELSE IF or_keyword[2] = "after"
    THEN sOpen \o or_keyword[1] \o sClose \o <<" ">> \o sOR \o <<" ">>
    ELSE sOpen \o or_keyword[1] \o sClose

\* a variant of line 178 that removes the first occurrence only
RECURSIVE ReplaceOnceFrom(_, _, _)
ReplaceOnceFrom(s, old, i) ==
    IF i > Len(s) THEN <<>>
    ELSE IF StartsAt(s, old, i) THEN SubSeq(s, i + Len(old), Len(s))
    ELSE <<s[i]>> \o ReplaceOnceFrom(s, old, i + 1)

CandidateFirstOnly(current, replace_text) ==
    IF replace_text = <<>> THEN current ELSE ReplaceOnceFrom(current, replace_text, 1)

\* new_query, line 178
Candidate(current, replace_text) == Replace(current, replace_text)

\* a variant of line 180 that keeps every removal
KeepsRemovalAlways(count, baseline) == TRUE

\* a variant of line 180 that keeps a removal whenever the count did not grow
KeepsRemovalIfNotMore(count, baseline) == count <= baseline

\* the test of line 180
KeepsRemoval(count, baseline) == count = baseline

\* a variant of the call of perform_search in which a failure is caught
Swallowed(outcome) == FALSE

\* perform_search raised: lines 148-185 hold no except clause, so the
\* exception leaves search_pubmed through the finally block
Raises(outcome) == ~outcome.ok

\* the count perform_search hands back (line 161)
CountOf(outcome) == outcome.n

Init ==
    /\ pc = "start"
    /\ \E input \in EngineInputs(MaxEngineNodes) :
          /\ query = input[1]
          /\ or_keywords = input[2]
    /\ result_count = Nothing
    /\ excluded_keywords = Nothing
    /\ current_query = Nothing
    /\ idx = Nothing
    /\ new_query = Nothing
    /\ new_count = Nothing
    /\ oracle_calls = <<>>
    /\ oracle_answers = <<>>
    /\ driver_open = TRUE
    /\ returned = Nothing
    /\ IdleParse /\ IdleTree

\* lines 164-167: the baseline measurement
Baseline ==
    /\ pc = "start"
    /\ \E outcome \in OracleOutcomes :
          /\ oracle_calls' = Append(oracle_calls, query)
          /\ oracle_answers' = Append(oracle_answers, outcome)
          /\ IF Raises(outcome)
             THEN /\ pc' = "raised"
                  /\ driver_open' = FALSE
                  /\ UNCHANGED <<result_count, excluded_keywords, current_query, idx>>
             ELSE /\ result_count' = CountOf(outcome)
                  /\ excluded_keywords' = <<>>
                  /\ current_query' = query
                  /\ idx' = 1
                  /\ pc' = "loop"
                  /\ UNCHANGED driver_open
    /\ UNCHANGED <<query, or_keywords, new_query, new_count, returned,
                   parseVars, treeVars>>

\* lines 170-182: one iteration of the for loop
Iterate ==
    /\ pc = "loop"
    /\ idx <= Len(or_keywords)
    /\ LET or_keyword == or_keywords[idx]
           candidate == Candidate(current_query, ReplaceText(or_keyword))
       IN  /\ new_query' = candidate
           /\ \E outcome \in OracleOutcomes :
                 /\ oracle_calls' = Append(oracle_calls, candidate)
                 /\ oracle_answers' = Append(oracle_answers, outcome)
                 /\ IF Raises(outcome)
                    THEN /\ pc' = "raised"
                         /\ driver_open' = FALSE
                         /\ UNCHANGED <<new_count, excluded_keywords,
                                        current_query, idx>>
                    ELSE /\ new_count' = CountOf(outcome)
                         /\ IF KeepsRemoval(CountOf(outcome), result_count)
                            THEN /\ excluded_keywords' =
                                        Append(excluded_keywords, or_keyword[1])
                                 /\ current_query' = candidate
                            ELSE UNCHANGED <<excluded_keywords, current_query>>
                         /\ idx' = idx + 1
                         /\ UNCHANGED <<pc, driver_open>>
    /\ UNCHANGED <<query, or_keywords, result_count, returned, parseVars, treeVars>>

\* lines 183-185: return, through the finally block
Return ==
    /\ pc = "loop"
    /\ idx > Len(or_keywords)
    /\ returned' = <<result_count, current_query, excluded_keywords>>
    /\ driver_open' = FALSE
    /\ pc' = "returned"
    /\ UNCHANGED <<query, or_keywords, result_count, excluded_keywords,
                   current_query, idx, new_query, new_count, oracle_calls,
                   oracle_answers, parseVars, treeVars>>

Next == Baseline \/ Iterate \/ Return

Spec == Init /\ [][Next]_vars

-----------------------------------------------------------------------------
(* Vocabulary of the properties *)

\* the strings of a sequence of structures, left to right, at every depth
RECURSIVE TermsOf(_)
TermsOf(items) ==
    Flatten([i \in DOMAIN items |->
        IF IsList(items[i]) THEN TermsOf(items[i].v) ELSE <<items[i].v>>])

\* the lists of a structure, the structure first, depth-first, left to right
RECURSIVE GroupsOf(_)
GroupsOf(g) ==
    <<g>> \o Flatten([i \in DOMAIN g.v |->
                IF IsList(g.v[i]) THEN GroupsOf(g.v[i]) ELSE <<>>])

IsAndOr(s) == UpperIs(s, sAND) \/ UpperIs(s, sOR)

\* the group holds AND or OR at some depth
BearsOperator(g) == \E i \in DOMAIN TermsOf(g.v) : IsAndOr(TermsOf(g.v)[i])

IsMinimalGroup(g) ==
    /\ BearsOperator(g)
    /\ \A i \in DOMAIN g.v : IsList(g.v[i]) => ~BearsOperator(g.v[i])

\* index of the first ')' of toks that closes no '(', or 0
RECURSIVE UnmatchedFrom(_, _, _)
UnmatchedFrom(toks, i, depth) ==
    IF i > Len(toks) THEN 0
    ELSE IF toks[i] = sOpen THEN UnmatchedFrom(toks, i + 1, depth + 1)
    ELSE IF toks[i] = sClose
         THEN IF depth = 0 THEN i ELSE UnmatchedFrom(toks, i + 1, depth - 1)
    ELSE UnmatchedFrom(toks, i + 1, depth)

FirstUnmatched(toks) == UnmatchedFrom(toks, 1, 0)

NotParen(tok) == tok # sOpen /\ tok # sClose

-----------------------------------------------------------------------------
(* Properties of parse_query, under SpecParse *)

\* C9: parsing an input with an unmatched ')' ends the top-level group there:
\* the tree holds exactly the tokens before it, the tokens after it are left
\* unread, and "a) AND b" parses to [a].
C9_UnmatchedCloseTruncates ==
    pc = "parsed" =>
        LET at == FirstUnmatched(tokens)
        IN  /\ IsList(parsed_tree)
            /\ at > 0 =>
                  /\ TermsOf(parsed_tree.v) = SelectSeq(SubSeq(tokens, 1, at - 1), NotParen)
                  /\ remaining = SubSeq(tokens, at + 1, Len(tokens))
            /\ query_str = <<"a", ")", " ", "A", "N", "D", " ", "b">> =>
                  parsed_tree = List(<<T("a")>>)

C9_Witness ==
    /\ pc = "parsed"
    /\ FirstUnmatched(tokens) > 1
    /\ remaining # <<>>
    /\ \E i \in DOMAIN parsed_tree.v : IsList(parsed_tree.v[i])

-----------------------------------------------------------------------------
(* Properties of the pure stages, under SpecTree *)

\* C6: get_minimal_operator_groups returns exactly the groups of the tree that
\* hold an operator at some depth and have no direct child group holding one,
\* each once, in depth-first left-to-right order; for
\* [[a, AND, b], OR, [c, AND, [d, OR, e]]] these are [a, AND, b] and [d, OR, e].
C6_MinimalGroupsExact ==
    pc = "groups" =>
        /\ minimal_groups = SelectSeq(GroupsOf(tree), IsMinimalGroup)
        /\ tree = SampleTree =>
              minimal_groups =
                  << List(<<T("a"), Str(sAND), T("b")>>),
                     List(<<T("d"), Str(sOR), T("e")>>) >>

C6_Witness ==
    /\ pc = "groups"
    /\ Len(minimal_groups) >= 2
    /\ minimal_groups[1] # minimal_groups[2]
    /\ tree \notin Range(minimal_groups)

\* the children of a group after each sub-list has been flattened
FlattenedChildren(g) ==
    [i \in DOMAIN g.v |-> IF IsList(g.v[i]) THEN join_keyword(g.v[i]) ELSE g.v[i]]

\* C7: join_keyword joins the flattened children of a group with single spaces
\* into one string if and only if none of them is a string equal to OR in any
\* letter case and none of them is a list; otherwise it returns the flattened
\* children unchanged.
C7_JoinIffNoOrAnyCase ==
    (pc = "flat" /\ IsList(tree)) =>
        LET children == FlattenedChildren(tree)
            joinable ==
                /\ \A i \in DOMAIN children :
                      IsStr(children[i]) => ~UpperIs(children[i].v, sOR)
                /\ \A i \in DOMAIN children : ~IsList(children[i])
        IN  /\ IsStr(joined_keywords) <=> joinable
            /\ IsStr(joined_keywords) =>
                  joined_keywords.v =
                      JoinSpace([i \in DOMAIN children |-> children[i].v])
            /\ IsList(joined_keywords) => joined_keywords.v = children

\* C8: flattening is idempotent: join_keyword applied to its own result
\* returns that result.
C8_JoinIdempotent ==
    pc = "flat2" => rejoined = joined_keywords

C8_Witness ==
    /\ pc = "flat2"
    /\ IsList(tree)
    /\ IsList(joined_keywords)
    /\ joined_keywords # tree
    /\ \E i \in DOMAIN joined_keywords.v : IsList(joined_keywords.v[i])

BeforeText(term) == <<" ", "O", "R", " ", "(">> \o term \o <<")">>
AfterText(term) == <<"(">> \o term \o <<")", " ", "O", "R", " ">>

\* C2: every entry of get_or_keyword(F) hinted "before" or "after" has its
\* literal substring, " OR (term)" or "(term) OR ", in
\* reverse_joined_keywords(F), F being join_keyword of the minimal groups.
C2_HintedTextOccurs ==
    pc = "tagged" =>
        \A i \in DOMAIN or_keyword_list :
            /\ or_keyword_list[i][2] = "before" =>
                  Contains(search_query, BeforeText(or_keyword_list[i][1]))
            /\ or_keyword_list[i][2] = "after" =>
                  Contains(search_query, AfterText(or_keyword_list[i][1]))

-----------------------------------------------------------------------------
(* Properties of search_pubmed, under Spec *)

\* the oracle failed on some call
Failed == \E i \in DOMAIN oracle_answers : ~oracle_answers[i].ok

\* the oracle answered as a function of the query string
Deterministic ==
    \A i, j \in DOMAIN oracle_calls :
        oracle_calls[i] = oracle_calls[j] => oracle_answers[i] = oracle_answers[j]

\* this step is an iteration of the loop whose measurement succeeded
IterationStep == pc = "loop" /\ pc' = "loop" /\ idx' = idx + 1

\* this step sends a candidate to the oracle
CandidateStep == pc = "loop" /\ Len(oracle_calls') = Len(oracle_calls) + 1

\* the literal substring of a tagged term
HintedText(entry) ==
    IF entry[2] = "before" THEN BeforeText(entry[1])
    ELSE IF entry[2] = "after" THEN AfterText(entry[1])
    ELSE <<"(">> \o entry[1] \o <<")">>

\* position of the first occurrence of p in s at or after i, or 0
RECURSIVE FirstAt(_, _, _)
FirstAt(s, p, i) ==
    IF i + Len(p) - 1 > Len(s) THEN 0
    ELSE IF SubSeq(s, i, i + Len(p) - 1) = p THEN i
    ELSE FirstAt(s, p, i + 1)

\* s without the first occurrence of p
WithoutFirst(s, p) ==
    LET at == FirstAt(s, p, 1)
    IN  IF at = 0 THEN s
        ELSE SubSeq(s, 1, at - 1) \o SubSeq(s, at + Len(p), Len(s))

\* s from position i on, without the occurrences of p met scanning left to right
RECURSIVE WithoutEveryFrom(_, _, _)
WithoutEveryFrom(s, p, i) ==
    LET at == FirstAt(s, p, i)
    IN  IF at = 0 THEN SubSeq(s, i, Len(s))
        ELSE SubSeq(s, i, at - 1) \o WithoutEveryFrom(s, p, at + Len(p))

\* number of occurrences of p in s that do not overlap, scanning left to right
RECURSIVE OccurrencesFrom(_, _, _)
OccurrencesFrom(s, p, i) ==
    LET at == FirstAt(s, p, i)
    IN  IF at = 0 THEN 0 ELSE 1 + OccurrencesFrom(s, p, at + Len(p))

\* a is b with some elements left out
RECURSIVE IsSubsequence(_, _)
IsSubsequence(a, b) ==
    IF a = <<>> THEN TRUE
    ELSE IF b = <<>> THEN FALSE
    ELSE IF Head(a) = Head(b) THEN IsSubsequence(Tail(a), Tail(b))
    ELSE IsSubsequence(a, Tail(b))

\* the scripted oracle: 100 for a query containing "cat" or "feline", else 0
Scripted(q) == IF Contains(q, cat) \/ Contains(q, feline) THEN 100 ELSE 0

\* the run is on "(cat) OR (feline)" with [cat after, feline before], has
\* returned, and every answer of the oracle was the scripted one
CatFelineRun ==
    /\ pc = "returned"
    /\ <<query, or_keywords>> = CatFelineInput
    /\ \A i \in DOMAIN oracle_calls :
          oracle_answers[i] = Answer(Scripted(oracle_calls[i]))

\* C1 as stated: the run returns 100, excluded = ["feline"] and the final
\* query "(cat)", "cat" not being excluded.
C1_ReturnsCatOnly ==
    CatFelineRun =>
        /\ returned = <<100, <<"(">> \o cat \o <<")">>, <<feline>> >>
        /\ cat \notin Range(excluded_keywords)

\* C1 as amended: the run returns 100, excluded = ["cat", "feline"] and the
\* final query "(feline)": removing "(cat) OR " leaves "(feline)" with count
\* 100, and " OR (feline)" is then absent, the unchanged query counting 100.
C1_ReturnsFelineOnly ==
    CatFelineRun =>
        /\ returned = <<100, <<"(">> \o feline \o <<")">>, <<cat, feline>> >>
        /\ oracle_calls = << query, <<"(">> \o feline \o <<")">>,
                             <<"(">> \o feline \o <<")">> >>

C1_Witness == CatFelineRun /\ Len(excluded_keywords) = 2

\* C3 as stated: the candidate sent to the oracle is the current query with
\* the first occurrence of the term's text removed, later ones remaining.
C3_RemovesFirstOccurrence ==
    [][CandidateStep =>
          /\ new_query' = WithoutFirst(current_query, HintedText(or_keywords[idx]))
          /\ oracle_calls'[Len(oracle_calls')] = new_query']_vars

\* C3 as amended: the candidate sent to the oracle is the current query with
\* every occurrence of the term's text removed (scanning left to right, the
\* occurrences not overlapping); it is the current query if the text is absent.
C3_RemovesEveryOccurrence ==
    [][CandidateStep =>
          LET text == HintedText(or_keywords[idx])
          IN  /\ new_query' = WithoutEveryFrom(current_query, text, 1)
              /\ oracle_calls'[Len(oracle_calls')] = new_query'
              /\ ~Contains(current_query, text) => new_query' = current_query]_vars

\* an iteration has just removed two occurrences of its text (its candidate
\* was discarded, so current_query is still the query it started from)
C3_Witness ==
    /\ pc = "loop"
    /\ idx > 1
    /\ new_count # result_count
    /\ OccurrencesFrom(current_query, HintedText(or_keywords[idx - 1]), 1) >= 2
    /\ Len(new_query) = Len(current_query)
                          - 2 * Len(HintedText(or_keywords[idx - 1]))

\* C4: a failure of the oracle, on the baseline or on a candidate, ends the
\* run as a raised exception: nothing is returned, no step follows it (no
\* further oracle call), and the step that failed changes neither the baseline
\* nor the current query nor the excluded terms nor the last count.
C4_FailureAborts ==
    [][/\ ~Failed
       /\ Failed' =>
             /\ pc' = "raised"
             /\ returned' = Nothing
             /\ driver_open' = FALSE
             /\ UNCHANGED <<result_count, new_count, current_query,
                            excluded_keywords, idx>>]_vars

C4_Witness ==
    /\ pc = "raised"
    /\ Failed
    /\ Len(oracle_calls) > 2
    /\ excluded_keywords # <<>>
    /\ returned = Nothing

\* C5: an iteration whose count equals the baseline appends its term to
\* excluded and makes its candidate the current query; any other leaves both
\* unchanged; the baseline never changes after the first oracle call; the
\* terms are taken in list order, the candidate built from the current query.
C5_KeepOrDiscard ==
    [][/\ IterationStep =>
             /\ IF new_count' = result_count
                THEN /\ excluded_keywords' =
                            Append(excluded_keywords, or_keywords[idx][1])
                     /\ current_query' = new_query'
                ELSE UNCHANGED <<excluded_keywords, current_query>>
             /\ oracle_answers'[Len(oracle_answers')] = Answer(new_count')
             /\ oracle_calls'[Len(oracle_calls')] = new_query'
             /\ new_query' = WithoutEveryFrom(current_query,
                                              HintedText(or_keywords[idx]), 1)
       /\ pc # "start" => result_count' = result_count
       /\ pc = "start" /\ pc' = "loop" =>
             /\ idx' = 1
             /\ oracle_answers' = <<Answer(result_count')>>]_vars

\* a term was kept after another was excluded
C5_Witness ==
    /\ pc = "loop"
    /\ idx > 2
    /\ Len(excluded_keywords) = 1
    /\ new_count # result_count
    /\ current_query # query

\* C10: while the oracle has answered as a function of the query and has not
\* failed, the current query has been measured and counts the baseline, before
\* and after every iteration and on return, and excluded is a subsequence of
\* the terms of or_keywords in their order.
C10_CountPreserved ==
    (Deterministic /\ ~Failed /\ pc \in {"loop", "returned"}) =>
        /\ \E i \in DOMAIN oracle_calls :
              /\ oracle_calls[i] = current_query
              /\ oracle_answers[i] = Answer(result_count)
        /\ IsSubsequence(excluded_keywords,
                         [i \in DOMAIN or_keywords |-> or_keywords[i][1]])
        /\ pc = "returned" =>
              returned = <<result_count, current_query, excluded_keywords>>

C10_Witness ==
    /\ pc = "returned"
    /\ Deterministic
    /\ ~Failed
    /\ Len(or_keywords) >= 3
    /\ Len(excluded_keywords) >= 1
    /\ Len(excluded_keywords) < Len(or_keywords)
    /\ current_query # query

=============================================================================
